---- MODULE Spec2Model ----
(***************************************************************************)
(* TicTacToeOL (src/main.py): the board engine (TicTacToe), the session    *)
(* list (game_instances), the HTTP create endpoint (create_game) and the   *)
(* per-connection websocket handler (game), as a state machine.            *)
(*                                                                         *)
(* The handlers are asyncio coroutines: a handler runs without             *)
(* interruption between two awaits, so every action below is the code      *)
(* between one await and the next.  The awaits are accept (l.138), close   *)
(* (l.141), send (l.145, 163, 169) and receive_text (l.149).               *)
(***************************************************************************)
EXTENDS Integers, Sequences, FiniteSets, TLC

(* ------------------------------ bounds -------------------------------- *)
MaxSessions  == 2       \* GameSession objects ever constructed
MaxConns     == 2       \* websocket connections ever opened
MaxMoves     == 2       \* inbound move messages ever received (Spec)
MaxGameMoves == 4       \* inbound move messages ever received (SpecGame)
MaxTicks     == 2       \* clock advances
MaxAiMoves   == 3       \* inbound move messages ever received (SpecAi)
MaxCalls     == 2       \* direct calls of the board engine (SpecBoard)

(* ------------------------- program constants -------------------------- *)
MinSize == 3            \* main.py:57
MaxSize == 25           \* main.py:57
TTL     == 600          \* main.py:175

(* TicPieceState (main.py:26-29) and GameState (main.py:32-36), by value *)
Check   == "Check"
Circle  == "Circle"
Empty   == "-"
Draw    == "Draw"
Playing == "Playing"
TicPieceState == {Check, Circle, Empty}
GameState     == {Circle, Check, Draw, Playing}

(* ------------------------------ inputs -------------------------------- *)
SizeInputs  == {MinSize - 1, MinSize, MaxSize + 1}   \* create?size= (Spec)
\* create?size= of SpecCreate: both ends of the range and their neighbours
EdgeSizes   == {MinSize - 1, MinSize, MaxSize, MaxSize + 1}
NameInputs  == {0, 1}     \* create?name= : 0 is "no name given", 1 is "g1"
JoinNames   == {1, 2}     \* game?name=   : "g1", and "g2" that nobody creates
UuidBase    == 100        \* uuid4() names are UuidBase + k, all distinct
TickStep(k) == IF k = 1 THEN TTL - 1 ELSE 1   \* the k-th clock advance
CoordInputs == {-1, 0, 2, 3}              \* x, y of a direct board call
\* inbound moves {x, y, type} of Spec: a cell of the board and a cell that
\* is out of range, each with every value of type
MoveInputs  == {0} \X {0, 3} \X {Check, Circle, Empty}
\* what random.choice may return (main.py:110)
RandomCells == {<<0, 0>>, <<0, 1>>, <<1, 1>>}
\* inbound moves of SpecGame: row 0 can be completed by Check
GameMoves   == {<<0, 0, Check>>, <<0, 1, Check>>, <<0, 2, Check>>,
                <<1, 0, Circle>>}

SessionIds == 1..MaxSessions
ConnIds    == 1..MaxConns

(***************************************************************************)
(* Board engine: class TicTacToe.  self.board is a list of rows, indexed   *)
(* board[x][y] with 0 <= x, y < size.                                      *)
(***************************************************************************)
Idx(size) == 0..(size - 1)

SizeOf(b) == Cardinality(DOMAIN b)

\* the size check with its lower limit off by one
SizeValidLoose(size) == ~(size < MinSize - 1 \/ size > MaxSize)

\* TicTacToe.__init__, l.57: the size check
SizeValid(size) == ~(size < MinSize \/ size > MaxSize)

\* TicTacToe.__init__, l.60: the empty board
NewBoard(size) == [i \in Idx(size) |-> [j \in Idx(size) |-> Empty]]

\* the coordinate check without its test of the cell
is_coordinate_in_range(b, x, y) ==
    /\ 0 <= x /\ x < SizeOf(b)
    /\ 0 <= y /\ y < SizeOf(b)

\* is_coordinate_valid, l.62-63
is_coordinate_valid(b, x, y) ==
    /\ 0 <= x /\ x < SizeOf(b)
    /\ 0 <= y /\ y < SizeOf(b)
    /\ b[x][y] = Empty

\* place_piece, l.65-69, as a pair: the board afterwards and the returned bool
place_piece(b, x, y, piece) ==
    IF ~is_coordinate_valid(b, x, y)
    THEN [board |-> b, ret |-> FALSE]
    ELSE [board |-> [b EXCEPT ![x][y] = piece], ret |-> TRUE]

\* check_win without the anti-diagonal of l.79
check_win_no_anti_diagonal(b, piece) ==
    LET n == SizeOf(b) IN
    \/ \E i \in Idx(n) : \/ \A j \in Idx(n) : b[i][j] = piece
                         \/ \A j \in Idx(n) : b[j][i] = piece
    \/ \A i \in Idx(n) : b[i][i] = piece

\* check_win, l.71-81
check_win(b, piece) ==
    LET n == SizeOf(b) IN
    \/ \E i \in Idx(n) : \/ \A j \in Idx(n) : b[i][j] = piece
                         \/ \A j \in Idx(n) : b[j][i] = piece
    \/ \A i \in Idx(n) : b[i][i] = piece
    \/ \A i \in Idx(n) : b[i][n - i - 1] = piece

\* a row scan that looks for a Circle row in all rows before any Check row
RowScanCircleFirst(b, r) ==
    IF \E i \in r..(SizeOf(b) - 1) : \A j \in Idx(SizeOf(b)) : b[i][j] = Circle
    THEN Circle
    ELSE IF \E i \in r..(SizeOf(b) - 1) : \A j \in Idx(SizeOf(b)) : b[i][j] = Check
    THEN Check
    ELSE ""

\* l.84-88: the row loop, from row r on; "" when no row decides
RECURSIVE RowScan(_, _)
RowScan(b, r) ==
    IF r >= SizeOf(b) THEN ""
    ELSE IF \A j \in Idx(SizeOf(b)) : b[r][j] = Circle THEN Circle
    ELSE IF \A j \in Idx(SizeOf(b)) : b[r][j] = Check THEN Check
    ELSE RowScan(b, r + 1)

\* l.89-93: the column loop, from column c on
RECURSIVE ColScan(_, _)
ColScan(b, c) ==
    IF c >= SizeOf(b) THEN ""
    ELSE IF \A i \in Idx(SizeOf(b)) : b[i][c] = Circle THEN Circle
    ELSE IF \A i \in Idx(SizeOf(b)) : b[i][c] = Check THEN Check
    ELSE ColScan(b, c + 1)

\* check_game_status, l.83-100
check_game_status(b) ==
    IF RowScan(b, 0) # "" THEN RowScan(b, 0)
    ELSE IF ColScan(b, 0) # "" THEN ColScan(b, 0)
    ELSE IF check_win(b, Circle) THEN Circle
    ELSE IF check_win(b, Check) THEN Check
    ELSE IF \A i \in Idx(SizeOf(b)) : \A j \in Idx(SizeOf(b)) : b[i][j] # Empty
         THEN Draw
    ELSE Playing

\* get_board, l.103-104: each cell by its enum value ("Check", "Circle", "-")
get_board(b) == [i \in Idx(SizeOf(b)) |-> [j \in Idx(SizeOf(b)) |-> b[i][j]]]

\* l.160: .replace("Circle", "O").replace("Check", "X") over the serialized
\* board; the serialized text has no other occurrence of the two words
ReplaceToken(t) == IF t = "Circle" THEN "O" ELSE IF t = "Check" THEN "X" ELSE t
board_data(b) ==
    [i \in Idx(SizeOf(b)) |-> [j \in Idx(SizeOf(b)) |-> ReplaceToken(get_board(b)[i][j])]]

\* l.107-108: empty_cells
empty_cells(b) ==
    {c \in Idx(SizeOf(b)) \X Idx(SizeOf(b)) : b[c[1]][c[2]] = Empty}

\* place_random_piece with random.choice resolved to cell c
place_random_piece(b, piece, c) ==
    IF empty_cells(b) # {}
    THEN [board |-> [b EXCEPT ![c[1]][c[2]] = piece], ret |-> TRUE]
    ELSE [board |-> b, ret |-> FALSE]

\* l.155-158: the mark the automated opponent plays
ai_piece(player_type) == IF player_type = Check THEN Circle ELSE Check

(***************************************************************************)
(* State.                                                                  *)
(*   GameSession objects are numbered 1, 2, ... in construction order; a   *)
(*   handler keeps its object (game_instance) whether or not the list      *)
(*   game_instances still holds it.                                        *)
(***************************************************************************)
VARIABLES
    game_instances,  \* l.124: the list of sessions, in creation order
    created,         \* number of GameSession objects constructed so far
    name,            \* GameSession.name     (0 for objects not yet built)
    players,         \* GameSession.players  (connection ids, join order)
    board,           \* GameSession.board.board
    time,            \* GameSession.time
    now,             \* time.time()
    pc,              \* where each connection's handler stands
    qname,           \* the handler's name parameter
    ai,              \* the handler's ai parameter
    game_instance,   \* the handler's local game_instance (0: none)
    response,        \* the payload being broadcast (response / end_response)
    it,              \* the position of the handler's list iterator
    mv,              \* the number of the move the handler is working on
    placed,          \* what place_piece returned for that move (l.152)
    outbox,          \* per session: every send of its handlers, in order
    moves,           \* inbound move messages received so far
    ticks,           \* clock advances so far
    calls,           \* direct board-engine calls so far (SpecBoard)
    last             \* the last operation: its name, its inputs, its result

vars == <<game_instances, created, name, players, board, time, now, pc, qname,
          ai, game_instance, response, it, mv, placed, outbox, moves, ticks,
          calls, last>>

sessVars == <<game_instances, created, name, players, board, time>>
connVars == <<pc, qname, ai, game_instance, response, it, mv, placed>>

NoOp == [op |-> "none", who |-> 0, x |-> 0, y |-> 0, arg |-> "", ok |-> TRUE,
         before |-> <<>>]

Init ==
    /\ game_instances = <<>>
    /\ created = 0
    /\ name = [s \in SessionIds |-> 0]
    /\ players = [s \in SessionIds |-> <<>>]
    /\ board = [s \in SessionIds |-> <<>>]
    /\ time = [s \in SessionIds |-> 0]
    /\ now = 0
    /\ pc = [c \in ConnIds |-> "idle"]
    /\ qname = [c \in ConnIds |-> 0]
    /\ ai = [c \in ConnIds |-> FALSE]
    /\ game_instance = [c \in ConnIds |-> 0]
    /\ response = [c \in ConnIds |-> <<>>]
    /\ it = [c \in ConnIds |-> 0]
    /\ mv = [c \in ConnIds |-> 0]
    /\ placed = [c \in ConnIds |-> FALSE]
    /\ outbox = [s \in SessionIds |-> <<>>]
    /\ moves = 0
    /\ ticks = 0
    /\ calls = 0
    /\ last = NoOp

(* ----------------------------- helpers -------------------------------- *)
InList(seq, e) == \E k \in 1..Len(seq) : seq[k] = e

\* a removal that takes the head of the list whatever e is
ListRemoveHead(seq, e) == IF seq = <<>> THEN <<>> ELSE Tail(seq)

\* list.remove(e) for an e that is in the list: the first occurrence goes
RECURSIVE ListRemove(_, _)
ListRemove(seq, e) ==
    IF seq = <<>> THEN <<>>
    ELSE IF Head(seq) = e THEN Tail(seq)
    ELSE <<Head(seq)>> \o ListRemove(Tail(seq), e)

\* the lookup without its comparison of names
FindFirstNoCompare(seq, nm) == IF seq = <<>> THEN 0 ELSE Head(seq)

\* l.139: next((game for game in game_instances if game.name == name), None)
RECURSIVE FindFirst(_, _)
FindFirst(seq, nm) ==
    IF seq = <<>> THEN 0
    ELSE IF name[Head(seq)] = nm THEN Head(seq)
    ELSE FindFirst(Tail(seq), nm)

\* l.175: [game for game in game_instances if now - game.time < 600]
Sweep(seq) == SelectSeq(seq, LAMBDA s : now - time[s] < TTL)

\* one send: the addressee, the ServerResponse (op, data), the handler that
\* sent it, the move it handled (0: the message of l.145), and whether the
\* transport took it
Msg(to, op, data, by, m, ok) ==
    [to |-> to, op |-> op, data |-> data, by |-> by, mv |-> m, ok |-> ok]

(***************************************************************************)
(* create_game, l.127-133                                                  *)
(***************************************************************************)
create_game(size, nm) ==
    LET nm2 == IF nm = 0 THEN UuidBase + created + 1 ELSE nm
        s   == created + 1
    IN
    IF ~SizeValid(size)
    THEN \* TicTacToe(size) raises MaxSizeException before anything is stored
         /\ last' = [NoOp EXCEPT !.op = "create", !.x = size, !.y = nm,
                                 !.ok = FALSE, !.arg = "MaxSizeException",
                                 !.before = game_instances]
         /\ UNCHANGED <<sessVars, connVars, now, outbox, moves, ticks, calls>>
    ELSE /\ created' = s
         /\ name' = [name EXCEPT ![s] = nm2]
         /\ players' = [players EXCEPT ![s] = <<>>]
         /\ board' = [board EXCEPT ![s] = NewBoard(size)]
         /\ time' = [time EXCEPT ![s] = now]
         /\ game_instances' = Append(game_instances, s)
         /\ last' = [NoOp EXCEPT !.op = "create", !.x = size, !.y = nm,
                                 !.who = s, !.before = game_instances]
         /\ UNCHANGED <<connVars, now, outbox, moves, ticks, calls>>

\* the clock
Tick ==
    /\ ticks' = ticks + 1
    /\ now' = now + TickStep(ticks + 1)
    /\ last' = [NoOp EXCEPT !.op = "tick"]
    /\ UNCHANGED <<sessVars, connVars, outbox, moves, calls>>

(***************************************************************************)
(* game, l.136-180                                                         *)
(*                                                                         *)
(* pc: "idle"    no connection yet                                         *)
(*     "accept"  awaiting websocket.accept(), l.138                        *)
(*     "recv"    awaiting websocket.receive_text(), l.149                  *)
(*     "bcast0"  awaiting player.send(response), l.163                     *)
(*     "bcast1"  awaiting player.send(end_response), l.169                 *)
(*     "closed"  returned at l.142                                         *)
(*     "ended"   left the loop by the break of l.171 and returned          *)
(*     "left"    returned from the except clause, l.177-180                *)
(*     "crashed" ended by an exception that nothing catches                *)
(***************************************************************************)
Running  == {"accept", "recv", "bcast0", "bcast1"}
Finished == {"closed", "ended", "left", "crashed"}

\* what a send on the transport of a handler that is gone raises in the
\* sender: WebSocketDisconnect, or an error the handler does not catch
SendFailures == {"WebSocketDisconnect", "RuntimeError"}

\* the transport of a handler that has returned or died is closed
open(c) == pc[c] \in Running

\* l.177-180, the except clause (no await inside: one step)
ExceptClause(c, g) ==
    LET rest == ListRemove(players[g], c) IN
    /\ players' = [players EXCEPT ![g] = rest]
    /\ IF rest = <<>>
       THEN IF InList(game_instances, g)
            THEN /\ game_instances' = ListRemove(game_instances, g)
                 /\ pc' = [pc EXCEPT ![c] = "left"]
            ELSE \* list.remove(x): x not in list -> ValueError
                 /\ game_instances' = game_instances
                 /\ pc' = [pc EXCEPT ![c] = "crashed"]
       ELSE /\ game_instances' = game_instances
            /\ pc' = [pc EXCEPT ![c] = "left"]

\* one turn of "for player in <list>: await player.send(payload)" with the
\* iterator at position i < len(list): the send is made, then the handler
\* is suspended in it (stay) or an exception ends the handler
SendNext(c, g, i, op, data, stay) ==
    LET to == players[g][i + 1] IN
    /\ it' = [it EXCEPT ![c] = i + 1]
    /\ IF open(to)
       THEN /\ outbox' = [outbox EXCEPT
                            ![g] = Append(@, Msg(to, op, data, c, mv'[c], TRUE))]
            /\ pc' = [pc EXCEPT ![c] = stay]
            /\ UNCHANGED <<players, game_instances>>
       ELSE /\ outbox' = [outbox EXCEPT
                            ![g] = Append(@, Msg(to, op, data, c, mv'[c], FALSE))]
            /\ \E f \in SendFailures :
                 IF f = "WebSocketDisconnect"
                 THEN ExceptClause(c, g)
                 ELSE /\ pc' = [pc EXCEPT ![c] = "crashed"]
                      /\ UNCHANGED <<players, game_instances>>

\* a client connects: l.137-138
Connect(c, nm, a) ==
    /\ pc[c] = "idle"
    /\ \A d \in ConnIds : d < c => pc[d] # "idle"
    /\ pc' = [pc EXCEPT ![c] = "accept"]
    /\ qname' = [qname EXCEPT ![c] = nm]
    /\ ai' = [ai EXCEPT ![c] = a]
    /\ last' = [NoOp EXCEPT !.op = "connect", !.who = c]
    /\ UNCHANGED <<sessVars, now, game_instance, response, it, mv, placed,
                   outbox, moves, ticks, calls>>

\* l.139-145: the lookup, and for a session that is found the registration
\* and the first message
Join(c) ==
    LET g == FindFirst(game_instances, qname[c]) IN
    /\ pc[c] = "accept"
    /\ IF g = 0
       THEN /\ pc' = [pc EXCEPT ![c] = "closed"]
            /\ last' = [NoOp EXCEPT !.op = "join", !.who = c, !.ok = FALSE,
                                    !.before = <<players, outbox>>]
            /\ UNCHANGED <<sessVars, now, qname, ai, game_instance, response,
                           it, mv, placed, outbox, moves, ticks, calls>>
       ELSE /\ game_instance' = [game_instance EXCEPT ![c] = g]
            /\ players' = [players EXCEPT ![g] = Append(@, c)]
            /\ outbox' = [outbox EXCEPT
                            ![g] = Append(@, Msg(c, 0, get_board(board[g]),
                                                 c, 0, TRUE))]
            /\ pc' = [pc EXCEPT ![c] = "recv"]
            /\ last' = [NoOp EXCEPT !.op = "join", !.who = c,
                                    !.before = <<players, outbox>>]
            /\ UNCHANGED <<game_instances, created, name, board, time, now,
                           qname, ai, response, it, mv, placed, moves, ticks,
                           calls>>

\* the cells random.choice is taken to return on board b: the empty ones
\* among RandomCells, or the first empty cell when none of those is empty;
\* one fixed value when place_random_piece is not called or has no choice
FirstEmpty(b) ==
    CHOOSE c \in empty_cells(b) :
        \A d \in empty_cells(b) : c[1] < d[1] \/ (c[1] = d[1] /\ c[2] <= d[2])
Choices(enabled, b) ==
    IF enabled /\ empty_cells(b) # {}
    THEN IF empty_cells(b) \cap RandomCells # {}
         THEN empty_cells(b) \cap RandomCells
         ELSE {FirstEmpty(b)}
    ELSE {<<0, 0>>}

\* l.149-163 up to the first send: one inbound move {x, y, type}; cell is
\* what random.choice returns when the automated opponent plays
Receive(c, x, y, type, cell) ==
    LET g  == game_instance[c]
        p1 == place_piece(board[g], x, y, type)
        p2 == IF ai[c]
              THEN place_random_piece(p1.board, ai_piece(type), cell)
              ELSE p1
    IN
    /\ pc[c] = "recv"
    /\ cell \in Choices(ai[c], p1.board)
    /\ moves' = moves + 1
    /\ mv' = [mv EXCEPT ![c] = moves + 1]
    /\ placed' = [placed EXCEPT ![c] = p1.ret]
    /\ board' = [board EXCEPT ![g] = p2.board]
    /\ response' = [response EXCEPT ![c] = board_data(p2.board)]
    /\ SendNext(c, g, 0, 0, response'[c], "bcast0")
    /\ last' = [NoOp EXCEPT !.op = "move", !.who = c, !.x = x, !.y = y,
                            !.arg = type, !.ok = p1.ret,
                            !.before = board[g]]
    /\ UNCHANGED <<created, name, time, now, qname, ai, game_instance, ticks,
                   calls>>

\* l.162-175: the handler resumes from a send of the op:0 broadcast
Bcast0(c) ==
    LET g  == game_instance[c]
        current_state == check_game_status(board[g])
    IN
    /\ pc[c] = "bcast0"
    /\ UNCHANGED <<created, name, board, time, now, qname, ai, game_instance,
                   mv, placed, moves, ticks, calls>>
    /\ IF it[c] < Len(players[g])
       THEN /\ SendNext(c, g, it[c], 0, response[c], "bcast0")
            /\ response' = response
            /\ last' = [NoOp EXCEPT !.op = "send0", !.who = c]
       ELSE IF current_state # Playing
       THEN \* l.167-169: end_response, and the first turn of the loop
            /\ response' = [response EXCEPT ![c] = current_state]
            /\ SendNext(c, g, 0, 1, current_state, "bcast1")
            /\ last' = [NoOp EXCEPT !.op = "terminal", !.who = c,
                                    !.arg = current_state]
       ELSE \* l.174-175: the sweep, then back to receive_text
            /\ game_instances' = Sweep(game_instances)
            /\ pc' = [pc EXCEPT ![c] = "recv"]
            /\ last' = [NoOp EXCEPT !.op = "sweep", !.who = c,
                                    !.before = game_instances]
            /\ UNCHANGED <<players, response, it, outbox>>

\* l.168-171: the handler resumes from a send of the op:1 broadcast
Bcast1(c) ==
    LET g == game_instance[c] IN
    /\ pc[c] = "bcast1"
    /\ UNCHANGED <<created, name, board, time, now, qname, ai, game_instance,
                   response, mv, placed, moves, ticks, calls>>
    /\ IF it[c] < Len(players[g])
       THEN /\ SendNext(c, g, it[c], 1, response[c], "bcast1")
            /\ last' = [NoOp EXCEPT !.op = "send1", !.who = c]
       ELSE /\ IF InList(game_instances, g)
               THEN /\ game_instances' = ListRemove(game_instances, g)
                    /\ pc' = [pc EXCEPT ![c] = "ended"]
               ELSE \* l.170 raises ValueError
                    /\ game_instances' = game_instances
                    /\ pc' = [pc EXCEPT ![c] = "crashed"]
            /\ last' = [NoOp EXCEPT !.op = "remove", !.who = c,
                                    !.ok = InList(game_instances, g),
                                    !.before = game_instances]
            /\ UNCHANGED <<players, it, outbox>>

\* the client goes away while the handler awaits the next message: l.149
\* raises WebSocketDisconnect, l.177-180 run
Disconnect(c) ==
    /\ pc[c] = "recv"
    /\ ExceptClause(c, game_instance[c])
    /\ last' = [NoOp EXCEPT !.op = "leave", !.who = c,
                            !.ok = (pc'[c] = "left"),
                            !.before = game_instances]
    /\ UNCHANGED <<created, name, board, time, now, qname, ai, game_instance,
                   response, it, mv, placed, outbox, moves, ticks, calls>>

(***************************************************************************)
(* Spec: the service with its registry (create, clock, sweep) and clients  *)
(* that connect without ai.  A line takes MinSize marks and MoveInputs     *)
(* has one cell of the board, so no game ends here and no handler reaches  *)
(* l.167-171; SpecGame has the games that end.                             *)
(***************************************************************************)
Create ==
    /\ created < MaxSessions
    /\ \E size \in SizeInputs, nm \in NameInputs : create_game(size, nm)

Advance == ticks < MaxTicks /\ Tick

Open == \E c \in ConnIds, nm \in JoinNames : Connect(c, nm, FALSE)

Lookup == \E c \in ConnIds : Join(c)

Move ==
    /\ moves < MaxMoves
    /\ \E c \in ConnIds, m \in MoveInputs, cell \in RandomCells :
          Receive(c, m[1], m[2], m[3], cell)

Resume0 == \E c \in ConnIds : Bcast0(c)

Leave == \E c \in ConnIds : Disconnect(c)

Next ==
    \/ Create
    \/ Advance
    \/ Open
    \/ Lookup
    \/ Move
    \/ Resume0
    \/ Leave

Spec == Init /\ [][Next]_vars

(***************************************************************************)
(* SpecCreate: the registry with sessions of the smallest and the largest  *)
(* size, and clients that connect and leave without sending a move.        *)
(***************************************************************************)
CreateEdge ==
    /\ created < MaxSessions
    /\ \E size \in EdgeSizes, nm \in NameInputs : create_game(size, nm)

NextCreate ==
    \/ CreateEdge
    \/ Advance
    \/ Open
    \/ Lookup
    \/ Leave

SpecCreate == Init /\ [][NextCreate]_vars

(***************************************************************************)
(* SpecGame: one game played to its end.  It starts after                  *)
(* create_game(3, "g1") and has the handlers of that session only.         *)
(***************************************************************************)
InitGame ==
    /\ game_instances = <<1>>
    /\ created = 1
    /\ name = [s \in SessionIds |-> IF s = 1 THEN 1 ELSE 0]
    /\ players = [s \in SessionIds |-> <<>>]
    /\ board = [s \in SessionIds |-> IF s = 1 THEN NewBoard(MinSize) ELSE <<>>]
    /\ time = [s \in SessionIds |-> 0]
    /\ now = 0
    /\ pc = [c \in ConnIds |-> "idle"]
    /\ qname = [c \in ConnIds |-> 0]
    /\ ai = [c \in ConnIds |-> FALSE]
    /\ game_instance = [c \in ConnIds |-> 0]
    /\ response = [c \in ConnIds |-> <<>>]
    /\ it = [c \in ConnIds |-> 0]
    /\ mv = [c \in ConnIds |-> 0]
    /\ placed = [c \in ConnIds |-> FALSE]
    /\ outbox = [s \in SessionIds |-> <<>>]
    /\ moves = 0
    /\ ticks = 0
    /\ calls = 0
    /\ last = NoOp

GameOpen == \E c \in ConnIds : Connect(c, 1, FALSE)

Resume1 == \E c \in ConnIds : Bcast1(c)

GameMove ==
    /\ moves < MaxGameMoves
    /\ \E c \in ConnIds, m \in GameMoves : Receive(c, m[1], m[2], m[3], <<0, 0>>)

NextGame ==
    \/ GameOpen
    \/ Lookup
    \/ GameMove
    \/ Resume0
    \/ Resume1
    \/ Leave

SpecGame == InitGame /\ [][NextGame]_vars

(***************************************************************************)
(* SpecAi: the session of SpecGame with clients that connect with ai=true. *)
(***************************************************************************)
AiOpen == \E c \in ConnIds : Connect(c, 1, TRUE)

AiMove ==
    /\ moves < MaxAiMoves
    /\ \E c \in ConnIds, m \in MoveInputs, cell \in Idx(MinSize) \X Idx(MinSize) :
          Receive(c, m[1], m[2], m[3], cell)

NextAi ==
    \/ AiOpen
    \/ Lookup
    \/ AiMove
    \/ Resume0
    \/ Resume1
    \/ Leave

SpecAi == InitGame /\ [][NextAi]_vars

(***************************************************************************)
(* SpecBoard: the board engine called directly on the board of session 1.  *)
(***************************************************************************)
\* rows of a 3 x 3 board, as self.board holds them
Row3(a, b, c) == [j \in Idx(3) |-> IF j = 0 THEN a ELSE IF j = 1 THEN b ELSE c]
Board3(r0, r1, r2) == [i \in Idx(3) |-> IF i = 0 THEN r0 ELSE IF i = 1 THEN r1 ELSE r2]

\* boards the calls start from: the new board, a board with one empty cell
\* left, and a full board
SeedBoards ==
    { NewBoard(MinSize),
      Board3(Row3(Check, Circle, Check), Row3(Check, Circle, Circle),
             Row3(Circle, Check, Empty)),
      Board3(Row3(Check, Circle, Check), Row3(Check, Circle, Circle),
             Row3(Circle, Check, Check)) }

\* every content of a 3 x 3 board
AllBoards == [Idx(MinSize) -> [Idx(MinSize) -> TicPieceState]]

InitWith(b) ==
    /\ game_instances = <<1>>
    /\ created = 1
    /\ name = [s \in SessionIds |-> IF s = 1 THEN 1 ELSE 0]
    /\ players = [s \in SessionIds |-> <<>>]
    /\ board = [s \in SessionIds |-> IF s = 1 THEN b ELSE <<>>]
    /\ time = [s \in SessionIds |-> 0]
    /\ now = 0
    /\ pc = [c \in ConnIds |-> "idle"]
    /\ qname = [c \in ConnIds |-> 0]
    /\ ai = [c \in ConnIds |-> FALSE]
    /\ game_instance = [c \in ConnIds |-> 0]
    /\ response = [c \in ConnIds |-> <<>>]
    /\ it = [c \in ConnIds |-> 0]
    /\ mv = [c \in ConnIds |-> 0]
    /\ placed = [c \in ConnIds |-> FALSE]
    /\ outbox = [s \in SessionIds |-> <<>>]
    /\ moves = 0
    /\ ticks = 0
    /\ calls = 0
    /\ last = NoOp

InitBoard == \E b \in SeedBoards : InitWith(b)

\* board.place_piece(x, y, piece)
PlaceCall(x, y, piece) ==
    LET r == place_piece(board[1], x, y, piece) IN
    /\ calls < MaxCalls
    /\ calls' = calls + 1
    /\ board' = [board EXCEPT ![1] = r.board]
    /\ last' = [NoOp EXCEPT !.op = "place", !.x = x, !.y = y, !.arg = piece,
                            !.ok = r.ret, !.before = board[1]]
    /\ UNCHANGED <<game_instances, created, name, players, time, now, connVars,
                   outbox, moves, ticks>>

\* board.place_random_piece(piece), random.choice returning cell
RandomCall(piece, cell) ==
    LET r == place_random_piece(board[1], piece, cell) IN
    /\ calls < MaxCalls
    /\ cell \in (IF empty_cells(board[1]) # {} THEN empty_cells(board[1])
                 ELSE {<<0, 0>>})
    /\ calls' = calls + 1
    /\ board' = [board EXCEPT ![1] = r.board]
    /\ last' = [NoOp EXCEPT !.op = "random", !.x = cell[1], !.y = cell[2],
                            !.arg = piece, !.ok = r.ret, !.before = board[1]]
    /\ UNCHANGED <<game_instances, created, name, players, time, now, connVars,
                   outbox, moves, ticks>>

Place == \E x \in CoordInputs, y \in CoordInputs, piece \in TicPieceState :
            PlaceCall(x, y, piece)

Random == \E piece \in {Check, Circle}, cell \in Idx(MinSize) \X Idx(MinSize) :
            RandomCall(piece, cell)

NextBoard ==
    \/ Place
    \/ Random

SpecBoard == InitBoard /\ [][NextBoard]_vars

(***************************************************************************)
(* SpecStatus: check_game_status called on every content of a 3 x 3 board. *)
(***************************************************************************)
\* 4 x 4 boards with marks on the two diagonals only: on a board of even
\* size the diagonals share no cell
DiagBoards4 ==
    {[i \in Idx(4) |-> [j \in Idx(4) |-> IF i = j THEN a
                                         ELSE IF i + j = 3 THEN d
                                         ELSE Empty]] :
        a \in TicPieceState, d \in TicPieceState}

InitStatus == \E b \in AllBoards \cup DiagBoards4 : InitWith(b)

\* board.check_game_status()
StatusCall ==
    /\ last.op # "status"
    /\ last' = [NoOp EXCEPT !.op = "status",
                            !.arg = check_game_status(board[1]),
                            !.before = board[1]]
    /\ UNCHANGED <<sessVars, connVars, now, outbox, moves, ticks, calls>>

NextStatus == StatusCall

SpecStatus == InitStatus /\ [][NextStatus]_vars

(***************************************************************************)
(* Properties.                                                             *)
(***************************************************************************)
Registered(g) == InList(game_instances, g)

\* the sends of session g made by handler c with payload kind op
SentBy(g, c, op) == SelectSeq(outbox[g], LAMBDA m : m.by = c /\ m.op = op)

\* handler c found a terminal outcome (it made a send of l.169) and its
\* op:1 broadcast is over
TerminalDone(c) ==
    /\ game_instance[c] # 0
    /\ SentBy(game_instance[c], c, 1) # <<>>
    /\ pc[c] # "bcast1"

\* p was sent the op:0 snapshot of the move c handled and, after it, the
\* op:1 message with the outcome c evaluated
Served(c, p) ==
    LET box == outbox[game_instance[c]] IN
    \E i \in 1..Len(box), j \in 1..Len(box) :
        /\ i < j
        /\ box[i].to = p /\ box[i].by = c /\ box[i].op = 0
        /\ box[i].mv = mv[c] /\ box[i].ok
        /\ box[j].to = p /\ box[j].by = c /\ box[j].op = 1
        /\ box[j].data = response[c] /\ box[j].ok

\* no handler is between the receipt of a move and the end of its handling
NoMoveInHand == \A c \in ConnIds : pc[c] \notin {"bcast0", "bcast1"}

\* C1: once a handler has finished the broadcast of a terminal outcome,
\* every participant of its session has been sent the op:0 snapshot and then
\* the op:1 message with that outcome, and the session is not in the
\* registry; and while no move is being handled every session in the
\* registry is still Playing.
C1_TerminalBroadcast ==
    /\ \A c \in ConnIds :
         TerminalDone(c) =>
           /\ \A k \in 1..Len(players[game_instance[c]]) :
                 Served(c, players[game_instance[c]][k])
           /\ ~Registered(game_instance[c])
    /\ NoMoveInHand =>
         \A k \in 1..Len(game_instances) :
             check_game_status(board[game_instances[k]]) = Playing

\* C2: once a handler has finished the broadcast of a terminal outcome for
\* a session, no connection of that session applies a further move to its
\* board and no further op:0 or op:1 message is sent to its participants.
C2_NothingAfterTerminal ==
    [][\A c \in ConnIds :
          TerminalDone(c) =>
            /\ board'[game_instance[c]] = board[game_instance[c]]
            /\ outbox'[game_instance[c]] = outbox[game_instance[c]]]_vars

\* position of connection p in the list seq (0: not in it)
PosIn(seq, p) ==
    IF InList(seq, p) THEN CHOOSE k \in 1..Len(seq) : seq[k] = p ELSE 0

\* C3: when a handler leaves the op:0 loop of a move, every connection that
\* is in the participant list has been sent exactly one op:0 message of
\* that move, the sends were made in join order, and the message carries
\* the board as the move left it.
C3_SnapshotToEveryParticipant ==
    /\ last.op \in {"sweep", "terminal"} =>
         LET c  == last.who
             g  == game_instance[last.who]
             ms == SelectSeq(outbox[g], LAMBDA m : m.by = last.who /\ m.op = 0
                                                   /\ m.mv = mv[last.who])
         IN
         /\ \A k \in 1..Len(players[g]) :
               Cardinality({i \in 1..Len(ms) : ms[i].to = players[g][k]}) = 1
         /\ \A i \in 1..Len(ms), j \in 1..Len(ms) :
               (i < j /\ InList(players[g], ms[i].to)
                      /\ InList(players[g], ms[j].to)) =>
                   PosIn(players[g], ms[i].to) < PosIn(players[g], ms[j].to)
    /\ last.op = "move" =>
         LET g == game_instance[last.who] IN
         outbox[g][Len(outbox[g])].data = board_data(board[g])

\* C4: removing a session that is no longer in the registry is a no-op: the
\* handler that does it (after a terminal outcome, or as the last
\* participant leaves) does not fail, and the registry stays as it was.
C4_RemoveIdempotent ==
    (last.op \in {"remove", "leave"} /\ ~InList(last.before, game_instance[last.who])) =>
        /\ pc[last.who] # "crashed"
        /\ game_instances = last.before

\* C5: no two sessions in the registry have the same name.
C5_UniqueNames ==
    \A i \in 1..Len(game_instances), j \in 1..Len(game_instances) :
        i # j => name[game_instances[i]] # name[game_instances[j]]

\* C6: a create with 3 <= size <= 25 appends exactly one session, with an
\* empty size x size board and no participants, to the registry; a create
\* with any other size fails and leaves the registry as it was.
C6_CreateSize ==
    last.op = "create" =>
        IF 3 <= last.x /\ last.x <= 25
        THEN /\ last.ok
             /\ ~InList(last.before, last.who)
             /\ game_instances = Append(last.before, last.who)
             /\ DOMAIN board[last.who] = 0..(last.x - 1)
             /\ \A i \in 0..(last.x - 1) :
                   /\ DOMAIN board[last.who][i] = 0..(last.x - 1)
                   /\ \A j \in 0..(last.x - 1) : board[last.who][i][j] = Empty
             /\ players[last.who] = <<>>
        ELSE /\ ~last.ok
             /\ last.arg = "MaxSizeException"
             /\ game_instances = last.before

\* a create with the largest size has just succeeded on a registry that
\* holds a session with a participant
C6_Witness ==
    /\ last.op = "create" /\ last.x = 25 /\ last.ok
    /\ Len(game_instances) = 2
    /\ players[game_instances[1]] # <<>>

\* the cells of a board where it differs from another board of its size
Changed(b1, b2) ==
    {c \in (DOMAIN b1) \X (DOMAIN b1) : b1[c[1]][c[2]] # b2[c[1]][c[2]]}

InRange(b, x, y) == x \in DOMAIN b /\ y \in DOMAIN b

\* C7: place succeeds iff (x, y) is in range and the cell is Empty; on
\* success exactly cell (x, y) changes; on failure no cell changes.
C7_PlaceFrame ==
    last.op = "place" =>
        /\ last.ok <=> (InRange(last.before, last.x, last.y)
                        /\ last.before[last.x][last.y] = Empty)
        /\ last.ok => Changed(last.before, board[1]) = {<<last.x, last.y>>}
        /\ ~last.ok => board[1] = last.before

\* C8: a place on an in-range Empty cell succeeds whatever the mark, and a
\* second place on the same cell, with any mark, fails without changing the
\* board.
C8_PlaceThenReplay ==
    [][(last'.op = "place" /\ calls' = calls + 1) =>
          /\ (InRange(board[1], last'.x, last'.y)
              /\ board[1][last'.x][last'.y] = Empty) => last'.ok
          /\ (last.op = "place" /\ last.ok
              /\ last'.x = last.x /\ last'.y = last.y) =>
                 (~last'.ok /\ board' = board)]_vars

\* the lines of an n x n board: rows, columns and the two diagonals
Lines(n) ==
    {{<<i, j>> : j \in 0..(n - 1)} : i \in 0..(n - 1)}
    \cup {{<<i, j>> : i \in 0..(n - 1)} : j \in 0..(n - 1)}
    \cup {{<<i, i>> : i \in 0..(n - 1)}}
    \cup {{<<i, n - 1 - i>> : i \in 0..(n - 1)}}

HasLine(b, m) ==
    \E l \in Lines(Cardinality(DOMAIN b)) : \A c \in l : b[c[1]][c[2]] = m

HasEmpty(b) == \E i \in DOMAIN b : \E j \in DOMAIN b : b[i][j] = Empty

\* C9 as stated: the outcome is a mark's win iff that mark has a complete
\* line, Draw iff neither mark has one and no cell is Empty, and Playing iff
\* neither mark has one and some cell is Empty.
C9_AsStated ==
    last.op = "status" =>
        /\ \A m \in {Check, Circle} : last.arg = m <=> HasLine(last.before, m)
        /\ last.arg = Draw <=> (~HasLine(last.before, Check)
                                /\ ~HasLine(last.before, Circle)
                                /\ ~HasEmpty(last.before))
        /\ last.arg = Playing <=> (~HasLine(last.before, Check)
                                   /\ ~HasLine(last.before, Circle)
                                   /\ HasEmpty(last.before))

\* C9: the outcome is a mark's win only if that mark has a complete line,
\* and it is the win of one of the marks iff some mark has a complete line;
\* it is Draw iff neither mark has one and no cell is Empty, and Playing iff
\* neither mark has one and some cell is Empty.
C9_Outcome ==
    last.op = "status" =>
        /\ \A m \in {Check, Circle} : last.arg = m => HasLine(last.before, m)
        /\ last.arg \in {Check, Circle} <=> (HasLine(last.before, Check)
                                             \/ HasLine(last.before, Circle))
        /\ last.arg = Draw <=> (~HasLine(last.before, Check)
                                /\ ~HasLine(last.before, Circle)
                                /\ ~HasEmpty(last.before))
        /\ last.arg = Playing <=> (~HasLine(last.before, Check)
                                   /\ ~HasLine(last.before, Circle)
                                   /\ HasEmpty(last.before))

\* the outcome of a board on which both marks have a complete line
C9_Witness ==
    /\ last.op = "status"
    /\ HasLine(last.before, Check) /\ HasLine(last.before, Circle)
    /\ last.arg \in {Check, Circle}

\* the cell a token of an op:0 payload stands for
CellOf(t) == IF t \in {"Check", "X"} THEN Check
             ELSE IF t \in {"Circle", "O"} THEN Circle
             ELSE Empty
Decoded(data) == [i \in DOMAIN data |-> [j \in DOMAIN data[i] |-> CellOf(data[i][j])]]

\* C10: a join whose name no registered session has ends the connection
\* and sends nothing, changes no participant list and not the registry; a
\* join whose name is found appends the connection to the participants of
\* the first registered session of that name and sends the joiner, as the
\* first message it is ever sent, one op:0 message with the board of that
\* moment; nobody else is sent anything and no board changes.
C10_Join ==
    [][\A c \in ConnIds :
          (pc[c] = "accept" /\ pc'[c] # "accept") =>
            IF \A k \in 1..Len(game_instances) :
                   name[game_instances[k]] # qname[c]
            THEN /\ pc'[c] = "closed"
                 /\ outbox' = outbox
                 /\ players' = players
                 /\ game_instances' = game_instances
                 /\ board' = board
            ELSE \E k \in 1..Len(game_instances) :
                   LET g == game_instances[k] IN
                   /\ name[g] = qname[c]
                   /\ \A h \in 1..(k - 1) : name[game_instances[h]] # qname[c]
                   /\ players' = [players EXCEPT ![g] = Append(players[g], c)]
                   /\ \A s \in SessionIds : \A i \in 1..Len(outbox[s]) :
                         outbox[s][i].to # c
                   /\ \A s \in SessionIds \ {g} : outbox'[s] = outbox[s]
                   /\ Len(outbox'[g]) = Len(outbox[g]) + 1
                   /\ SubSeq(outbox'[g], 1, Len(outbox[g])) = outbox[g]
                   /\ outbox'[g][Len(outbox'[g])].to = c
                   /\ outbox'[g][Len(outbox'[g])].op = 0
                   /\ outbox'[g][Len(outbox'[g])].ok
                   /\ Decoded(outbox'[g][Len(outbox'[g])].data) = board[g]
                   /\ board' = board
                   /\ game_instances' = game_instances]_vars

\* a connection has just joined, as the second participant, a session
\* whose board holds a mark
C10_Witness ==
    /\ last.op = "join" /\ last.ok
    /\ Len(players[game_instance[last.who]]) = 2
    /\ board[game_instance[last.who]] # NewBoard(MinSize)
    /\ outbox[game_instance[last.who]][Len(outbox[game_instance[last.who]])].to
          = last.who

\* the tokens an op:0 payload is made of
Tokens(data) == {data[i][j] : i \in DOMAIN data, j \in DOMAIN data}

\* C11: every op:0 message, the one sent on join as well as those of the
\* broadcasts after a move, encodes each cell as "O", "X" or "-"; none
\* carries the token "Circle" or "Check".
C11_DisplayTokens ==
    \A s \in SessionIds : \A i \in 1..Len(outbox[s]) :
        outbox[s][i].op = 0 => Tokens(outbox[s][i].data) \subseteq {"O", "X", "-"}

\* the sessions of list seq, as a set
Members(seq) == {seq[k] : k \in 1..Len(seq)}

\* the step is the sweep of l.174-175
SweepStep == last'.op = "sweep" /\ pc' # pc

\* the age of session s, measured from its creation
Age(s) == now - time[s]

\* C12, its sweep part: no step changes the timestamp of a session that
\* exists, and the sweep after a non-terminal move removes exactly the
\* registered sessions whose age is at least 600 and keeps the others, in
\* their order, whether or not they have participants.
C12_SweepByAge ==
    [][/\ \A s \in 1..created : time'[s] = time[s]
       /\ now' = now \/ last'.op = "tick"
       /\ SweepStep =>
            /\ Members(game_instances') =
                  {s \in Members(game_instances) : Age(s) < 600}
            /\ \A i \in 1..Len(game_instances'), j \in 1..Len(game_instances') :
                  i < j => game_instances'[i] < game_instances'[j]]_vars

\* C12: the sweep part, and after the sweep a join by the name of a session
\* it removed finds no session.
C12_Sweep ==
    [][/\ \A s \in 1..created : time'[s] = time[s]
       /\ SweepStep =>
            /\ Members(game_instances') =
                  {s \in Members(game_instances) : Age(s) < 600}
            /\ \A s \in Members(game_instances) \ Members(game_instances') :
                  \A k \in 1..Len(game_instances') :
                      name[game_instances'[k]] # name[s]]_vars

\* the sweep has just removed, at age 600 or more, a session with a
\* participant whose move was handled, and kept a younger session
C12_Witness ==
    /\ last.op = "sweep"
    /\ \E s \in Members(last.before) \ Members(game_instances) :
          /\ Age(s) >= 600
          /\ game_instance[last.who] = s
          /\ InList(players[s], last.who)
    /\ game_instances # <<>>

\* the list seq without its element at position k
Without(seq, k) == SubSeq(seq, 1, k - 1) \o SubSeq(seq, k + 1, Len(seq))

\* C13: when a connection that awaits its next message disconnects, that
\* connection is removed from the participants of its session and all
\* other participants stay, in their order; no other participant list
\* changes; if the list is then empty the session is not in the registry,
\* and if it is not empty the registry is as it was.
C13_Disconnect ==
    [][(last'.op = "leave" /\ pc' # pc) =>
          LET c == last'.who
              g == game_instance[last'.who]
          IN
          /\ pc[c] = "recv" /\ pc'[c] \in Finished
          /\ \E k \in 1..Len(players[g]) :
                /\ players[g][k] = c
                /\ players'[g] = Without(players[g], k)
          /\ ~InList(players'[g], c)
          /\ \A s \in SessionIds \ {g} : players'[s] = players[s]
          /\ players'[g] = <<>> => ~InList(game_instances', g)
          /\ players'[g] # <<>> => game_instances' = game_instances
          /\ Members(game_instances') \ {g} = Members(game_instances) \ {g}]_vars

\* the second participant of a registered session has just disconnected
\* and the first one is still a participant
C13_Witness ==
    /\ last.op = "leave"
    /\ Registered(game_instance[last.who])
    /\ players[game_instance[last.who]] = <<1>>
    /\ last.who = 2
    /\ pc[1] \in Running

\* C14: the handling of one move is atomic with respect to other moves on
\* the session: from a handler's placement to its outcome evaluation (the
\* handler is in the op:0 broadcast) no step changes the board of its
\* session, and the board whose outcome it evaluates is the one it
\* broadcast.
C14_MoveAtomic ==
    [][\A c \in ConnIds :
          pc[c] = "bcast0" =>
            /\ board'[game_instance[c]] = board[game_instance[c]]
            /\ (last'.op \in {"terminal", "sweep"} /\ last'.who = c
                 /\ pc'[c] # "bcast0") =>
                   Decoded(response[c]) = board[game_instance[c]]]_vars

\* the cells of board b that hold a mark
Filled(b) == {c \in (DOMAIN b) \X (DOMAIN b) : b[c[1]][c[2]] # Empty}

\* C15: on a connection with ai, an inbound move with mark t on a board
\* with e Empty cells fills, next to the human's cell when the human's
\* placement succeeded, exactly one further cell that was Empty, with a mark
\* of {Check, Circle} other than t, whenever an Empty cell remains after
\* the human's attempt; a successful human move with e >= 2 fills exactly
\* two cells; when no Empty cell remains the automated move changes nothing.
C15_AiMove ==
    (last.op = "move" /\ ai[last.who]) =>
        LET b0  == last.before
            b1  == board[game_instance[last.who]]
            e   == Cardinality((DOMAIN b0) \X (DOMAIN b0)) - Cardinality(Filled(b0))
            new == Filled(b1) \ Filled(b0)
            h   == <<last.x, last.y>>
        IN
        /\ \A c \in Changed(b0, b1) : b0[c[1]][c[2]] = Empty
        /\ (last.ok /\ e >= 2) =>
              /\ Cardinality(new) = 2
              /\ h \in new /\ b1[h[1]][h[2]] = last.arg
              /\ \A c \in new \ {h} :
                    b1[c[1]][c[2]] \in {Check, Circle} \ {last.arg}
        /\ (last.ok /\ e = 1) => new = {h}
        /\ (~last.ok /\ e >= 1) =>
              /\ Cardinality(new) = 1
              /\ \A c \in new : b1[c[1]][c[2]] \in {Check, Circle} \ {last.arg}
        /\ (~last.ok /\ e = 0) => b1 = b0

\* the step is the receipt of a move by connection c
MoveStep(c) == pc[c] = "recv" /\ last'.op = "move" /\ last'.who = c /\ pc' # pc

\* (x, y) is out of range or names an occupied cell of board b
InvalidAt(b, x, y) == ~InRange(b, x, y) \/ b[x][y] # Empty

\* handler c is handling a move whose placement failed
InvalidInHand(c) == pc[c] = "bcast0" /\ ~placed[c] /\ ~ai[c]

\* every participant of session g has been sent the op:0 message of the
\* move c has in hand, with the payload c broadcasts
SentToAll(c, g) ==
    \A k \in 1..Len(players'[g]) :
        \E i \in 1..Len(outbox'[g]) :
            /\ outbox'[g][i].to = players'[g][k]
            /\ outbox'[g][i].by = c /\ outbox'[g][i].mv = mv[c]
            /\ outbox'[g][i].op = 0 /\ outbox'[g][i].ok
            /\ outbox'[g][i].data = response[c]

\* C16 without its broadcast clause: an invalid move on a connection
\* without ai leaves the board unchanged, the handler goes on to broadcast
\* the unchanged board, sends nothing but op:0 messages for it, and returns
\* to receive the next move.
C16_Silent ==
    [][\A c \in ConnIds :
          LET g == game_instance[c] IN
          /\ (MoveStep(c) /\ ~ai[c] /\ InvalidAt(board[g], last'.x, last'.y)) =>
                /\ board'[g] = board[g]
                /\ ~placed'[c]
                /\ pc'[c] = "bcast0"
                /\ response'[c] = board_data(board[g])
          /\ InvalidInHand(c) =>
                /\ pc'[c] \in {"bcast0", "recv"}
                /\ \A i \in (Len(outbox[g]) + 1)..Len(outbox'[g]) :
                      outbox'[g][i].by = c =>
                         outbox'[g][i].op = 0 /\ outbox'[g][i].data = response[c]]_vars

\* C16: an invalid move (out-of-range coordinate or occupied cell) on a
\* connection without ai leaves the board unchanged and signals no error:
\* the connection stays Active, the unchanged board is broadcast as an op:0
\* message to every participant, and the handler returns to receive the
\* next move.
C16_InvalidMove ==
    [][\A c \in ConnIds :
          LET g == game_instance[c] IN
          /\ (MoveStep(c) /\ ~ai[c] /\ InvalidAt(board[g], last'.x, last'.y)) =>
                /\ board'[g] = board[g]
                /\ pc'[c] = "bcast0"
                /\ response'[c] = board_data(board[g])
          /\ InvalidInHand(c) =>
                /\ pc'[c] \in {"bcast0", "recv"}
                /\ pc'[c] = "recv" => SentToAll(c, g)]_vars

\* row i, column j of board b consists of mark m
FullRow(b, i, m) == \A j \in DOMAIN b : b[i][j] = m
FullCol(b, j, m) == \A i \in DOMAIN b : b[i][j] = m
BothHaveLine(b) == HasLine(b, Check) /\ HasLine(b, Circle)

\* C17 as stated, the mark evaluated first being Circle (l.85, 90, 94): on
\* every board on which both Check and Circle have a complete line the
\* outcome is the win of Circle.
C17_FixedMark ==
    (last.op = "status" /\ BothHaveLine(last.before)) => last.arg = Circle

\* C17: on a board on which both marks have a complete line the outcome is
\* the mark of the complete row of lowest index when a row is complete,
\* else the mark of the complete column of lowest index when a column is
\* complete, else (both lines are diagonals) Circle.
C17_ScanOrder ==
    (last.op = "status" /\ BothHaveLine(last.before)) =>
        LET b    == last.before
            rows == {i \in DOMAIN b : \E m \in {Check, Circle} : FullRow(b, i, m)}
            cols == {j \in DOMAIN b : \E m \in {Check, Circle} : FullCol(b, j, m)}
        IN
        IF rows # {}
        THEN \E i \in rows : /\ \A k \in rows : i <= k
                              /\ FullRow(b, i, last.arg)
        ELSE IF cols # {}
        THEN \E j \in cols : /\ \A k \in cols : j <= k
                              /\ FullCol(b, j, last.arg)
        ELSE last.arg = Circle

\* the outcome of a board whose first complete row is a Check row and
\* which has a Circle row below it
C17_Witness ==
    /\ last.op = "status"
    /\ \E i \in DOMAIN last.before, k \in DOMAIN last.before :
          /\ i < k
          /\ FullRow(last.before, i, Check)
          /\ FullRow(last.before, k, Circle)
          /\ \A h \in DOMAIN last.before : h < i => ~FullRow(last.before, h, Circle)
    /\ last.arg = Check

\* the handler of connection c is in its protocol loop (l.148-175)
Active(c) == pc[c] \in {"recv", "bcast0", "bcast1"}

\* C18: every member of a participant list is a connection whose loop is
\* Active on that session; each connection is in at most one list and at
\* most once; and no send of a broadcast was addressed to a connection whose
\* handler had terminated.
C18_ParticipantsActive ==
    /\ \A s \in SessionIds : \A k \in 1..Len(players[s]) :
          /\ Active(players[s][k])
          /\ game_instance[players[s][k]] = s
    /\ \A s \in SessionIds, t \in SessionIds :
          \A k \in 1..Len(players[s]), h \in 1..Len(players[t]) :
              players[s][k] = players[t][h] => (s = t /\ k = h)
    /\ \A s \in SessionIds : \A i \in 1..Len(outbox[s]) : outbox[s][i].ok

\* the op:0 messages of session s that connection p received, in order
Snapshots(s, p) ==
    SelectSeq(outbox[s], LAMBDA m : m.to = p /\ m.op = 0 /\ m.ok)

\* board b2 has every mark of board b1
Contains(b2, b1) ==
    \A i \in DOMAIN b1 : \A j \in DOMAIN b1 :
        b1[i][j] # Empty => b2[i][j] = b1[i][j]

\* C19: the op:0 snapshots a participant receives are monotonic: each one
\* has every mark of the ones it received before (no stale board is
\* delivered after a newer one), also when several participants send moves
\* concurrently.
C19_MonotonicSnapshots ==
    \A s \in SessionIds, p \in ConnIds :
        \A i \in 1..Len(Snapshots(s, p)), j \in 1..Len(Snapshots(s, p)) :
            i < j => Contains(Decoded(Snapshots(s, p)[j].data),
                              Decoded(Snapshots(s, p)[i].data))

\* C19, its consequence: while no move is being handled the last snapshot
\* each participant received is the current board of its session.
C19_LastSnapshotCurrent ==
    NoMoveInHand =>
        \A s \in SessionIds : \A k \in 1..Len(players[s]) :
            LET sn == Snapshots(s, players[s][k]) IN
            /\ sn # <<>>
            /\ Decoded(sn[Len(sn)].data) = board[s]

\* C20: across human and automated placements the board of a session is
\* monotonic: its side length never changes, every cell is Empty, Check or
\* Circle, a cell that holds Check or Circle never changes again, and the
\* number of Empty cells never increases.
C20_BoardMonotonic ==
    [][\A s \in 1..created :
          /\ DOMAIN board'[s] = DOMAIN board[s]
          /\ \A i \in DOMAIN board[s] :
                /\ DOMAIN board'[s][i] = DOMAIN board[s][i]
                /\ \A j \in DOMAIN board[s][i] :
                      /\ board'[s][i][j] \in {Empty, Check, Circle}
                      /\ board[s][i][j] # Empty => board'[s][i][j] = board[s][i][j]
          /\ Cardinality(Filled(board'[s])) >= Cardinality(Filled(board[s]))]_vars

\* a human move with the other mark on an occupied cell has just been
\* refused, and the automated opponent has placed its mark in the same turn
C20_Witness ==
    /\ last.op = "move" /\ ai[last.who] /\ ~last.ok
    /\ InRange(last.before, last.x, last.y)
    /\ last.before[last.x][last.y] \in {Check, Circle} \ {last.arg}
    /\ last.arg \in {Check, Circle}
    /\ Cardinality(Filled(board[game_instance[last.who]]))
          = Cardinality(Filled(last.before)) + 1

====
